---------------------------- MODULE Spec2Model ----------------------------
(***************************************************************************)
(* Model of the chat client: the conversation store (StateManager), the    *)
(* submission cycle (ChatApp._handleFormSubmit with ApiService.query) and  *)
(* the stream decoder (ChatApp._processStream).                            *)
(*                                                                         *)
(* Text is a sequence of characters, each a one-character string.  JSON    *)
(* payloads of stream frames are modelled at lexeme granularity: a lexeme  *)
(* (JOpen, JClose, ...) stands for the JSON syntax around a content value  *)
(* and is never cut.                                                       *)
(***************************************************************************)
EXTENDS Integers, Sequences, FiniteSets, TLC

VARIABLES
    chats,          \* StateManager.state.chats: id -> chat
    activeChatId,   \* StateManager.state.activeChatId
    settings,       \* StateManager.state.settings
    storage,        \* localStorage['chatAppState']: <<>> (absent) or <<blob>>
    now,            \* Date.now()
    apiService,     \* ChatApp.apiService: TRUE when constructed, FALSE when null
    typing,         \* the typing indicator is shown
    subs,           \* the executions of _handleFormSubmit, in order of submit
    call            \* the StateManager method called last by StoreSpec, with its
                    \* arguments; NoCall where the handlers of the page make the calls

vars == <<chats, activeChatId, settings, storage, now, apiService, typing, subs, call>>

-----------------------------------------------------------------------------
(* Bounds of the model *)

MaxTime == 3        \* StoreSpec: Date.now() ranges over 1..MaxTime
MaxTurns == 2       \* StoreSpec: turns in the store, over all conversations
MaxClock == 2       \* Spec: Date.now() ranges over 1..MaxClock
MaxLog == 3         \* Spec: turns in the store, over all conversations
MaxSubs == 2        \* Spec: executions of _handleFormSubmit
MaxChunks == 2      \* StreamSpec: chunks of one response body

-----------------------------------------------------------------------------
(* Text *)

Null == <<>>        \* null / undefined / ''

DefaultTitle == <<"N", "u", "e", "v", "o", " ", "C", "h", "a", "t">>
DefaultPrompt == <<"E", "r", "e", "s", " ", "u", "n", " ", "a", "s", "i", "s", "t", "e", "n", "t", "e", " ", "s", "e", "r", "v", "i", "c", "i", "a", "l", " ", "y", " ", "p", "r", "o", "f", "e", "s", "i", "o", "n", "a", "l", ".">>
NoBodyText == <<"E", "r", "r", "o", "r", ":", " ", "N", "o", " ", "s", "e", " ", "r", "e", "c", "i", "b", "i", "ó", " ", "u", "n", "a", " ", "r", "e", "s", "p", "u", "e", "s", "t", "a", " ", "v", "á", "l", "i", "d", "a", " ", "d", "e", " ", "l", "a", " ", "A", "P", "I", ".">>
ErrorPrefix == <<"L", "o", " ", "s", "i", "e", "n", "t", "o", ",", " ", "h", "a", " ", "o", "c", "u", "r", "r", "i", "d", "o", " ", "u", "n", " ", "e", "r", "r", "o", "r", ":", " ">>
ApiErrorPrefix == <<"A", "P", "I", " ", "E", "r", "r", "o", "r", ":", " ">>
Ellipsis == <<".", ".", ".">>
TitleMax == 30

WhiteSpace == {" ", "\n", "\t"}

Min(a, b) == IF a < b THEN a ELSE b

RECURSIVE TrimStart(_)
TrimStart(s) ==
    IF s # <<>> /\ Head(s) \in WhiteSpace THEN TrimStart(Tail(s)) ELSE s

RECURSIVE TrimEnd(_)
TrimEnd(s) ==
    IF s # <<>> /\ s[Len(s)] \in WhiteSpace
    THEN TrimEnd(SubSeq(s, 1, Len(s) - 1)) ELSE s

\* String.prototype.trim
Trim(s) == TrimEnd(TrimStart(s))

\* mutant: the marker is added from 30 characters on, >= for >
TitleOfFrom30(content) ==
    SubSeq(content, 1, Min(TitleMax, Len(content)))
        \o (IF Len(content) >= TitleMax THEN Ellipsis ELSE <<>>)

\* content.substring(0, 30) + (content.length > 30 ? '...' : '')
TitleOf(content) ==
    SubSeq(content, 1, Min(TitleMax, Len(content)))
        \o (IF Len(content) > TitleMax THEN Ellipsis ELSE <<>>)

-----------------------------------------------------------------------------
(* The store: StateManager.  A store value S is the in-memory state plus   *)
(* the persisted blob: [chats, activeChatId, settings, storage].           *)

\* `chat_${Date.now()}`
ChatId(t) == <<"chat", t>>

\* parseInt(id.split('_')[1])
ChatTime(id) == id[2]

DefaultSettings == [fontSize |-> 3, maxTokens |-> 2048, showThoughts |-> FALSE]

\* { ...a, ...b }
Merge(a, b) ==
    [k \in DOMAIN a \cup DOMAIN b |-> IF k \in DOMAIN b THEN b[k] ELSE a[k]]

\* JSON.stringify(this.state)
Serialize(S) ==
    [chats |-> S.chats, activeChatId |-> S.activeChatId, settings |-> S.settings]

\* mutant: the saved settings replace the defaults, no spread of the defaults
initStateNoDefaults(stored) ==
    LET defaultState == [chats |-> <<>>, activeChatId |-> Null,
                         settings |-> DefaultSettings]
        savedState == IF stored = <<>> THEN <<>> ELSE stored[1]
        state == Merge(defaultState, savedState)
    IN  [chats |-> state.chats, activeChatId |-> state.activeChatId,
         settings |-> state.settings,
         storage |-> stored]

\* StateManager._initState, on the value of localStorage.getItem
initState(stored) ==
    LET defaultState == [chats |-> <<>>, activeChatId |-> Null,
                         settings |-> DefaultSettings]
        savedState == IF stored = <<>> THEN <<>> ELSE stored[1]
        state == Merge(defaultState, savedState)
        savedSettings == IF "settings" \in DOMAIN savedState
                         THEN savedState.settings ELSE <<>>
    IN  [chats |-> state.chats, activeChatId |-> state.activeChatId,
         settings |-> Merge(DefaultSettings, savedSettings),
         storage |-> stored]

saveState(S) == [S EXCEPT !.storage = <<Serialize(S)>>]

\* this.state.chats[this.state.activeChatId] is defined
HasActiveChat(S) == S.activeChatId \in DOMAIN S.chats

\* mutant: the comparator reversed, a - b
Oldest(ids) == CHOOSE i \in ids : \A j \in ids : ChatTime(i) <= ChatTime(j)

\* chatIds.sort((a, b) => parseInt(b.split('_')[1]) - parseInt(a.split('_')[1]))[0]
Newest(ids) == CHOOSE i \in ids : \A j \in ids : ChatTime(j) <= ChatTime(i)

\* mutant: the id is taken without the lookup
setActiveChatUnchecked(S, chatId) == saveState([S EXCEPT !.activeChatId = chatId])

\* mutant: no fallback, an id that does not resolve leaves the selection
setActiveChatKeep(S, chatId) ==
    saveState(
        IF chatId = Null \/ chatId \notin DOMAIN S.chats
        THEN S
        ELSE [S EXCEPT !.activeChatId = chatId])

setActiveChat(S, chatId) ==
    saveState(
        IF chatId = Null \/ chatId \notin DOMAIN S.chats
        THEN [S EXCEPT !.activeChatId =
                 IF DOMAIN S.chats # {} THEN Newest(DOMAIN S.chats) ELSE Null]
        ELSE [S EXCEPT !.activeChatId = chatId])

NewChat(id) ==
    [id |-> id, title |-> DefaultTitle, messages |-> <<>>,
     systemPrompt |-> DefaultPrompt]

createNewChat(S, t) ==
    LET newChatId == ChatId(t)
        inserted == [k \in DOMAIN S.chats \cup {newChatId} |->
                        IF k = newChatId THEN NewChat(newChatId) ELSE S.chats[k]]
    IN  setActiveChat([S EXCEPT !.chats = inserted], newChatId)

\* mutant: no conversation is created when none remains
deleteChatNoCreate(S, chatIdToDelete, t) ==
    LET wasActive == S.activeChatId = chatIdToDelete
        removed == [S EXCEPT !.chats =
                       [k \in DOMAIN S.chats \ {chatIdToDelete} |-> S.chats[k]]]
    IN  saveState(
            IF wasActive
            THEN IF DOMAIN removed.chats # {}
                 THEN setActiveChat(removed, Newest(DOMAIN removed.chats))
                 ELSE setActiveChat(removed, Null)
            ELSE removed)

\* mutant: the selection is made again whether or not the active one was deleted
deleteChatReselect(S, chatIdToDelete, t) ==
    LET removed == [S EXCEPT !.chats =
                       [k \in DOMAIN S.chats \ {chatIdToDelete} |-> S.chats[k]]]
    IN  saveState(
            IF DOMAIN removed.chats # {}
            THEN setActiveChat(removed, Newest(DOMAIN removed.chats))
            ELSE createNewChat(removed, t))

\* mutant: the test of the active conversation is inverted, !== for ===
deleteChatOfOther(S, chatIdToDelete, t) ==
    LET wasActive == S.activeChatId # chatIdToDelete
        removed == [S EXCEPT !.chats =
                       [k \in DOMAIN S.chats \ {chatIdToDelete} |-> S.chats[k]]]
    IN  saveState(
            IF wasActive
            THEN IF DOMAIN removed.chats # {}
                 THEN setActiveChat(removed, Newest(DOMAIN removed.chats))
                 ELSE createNewChat(removed, t)
            ELSE removed)

deleteChat(S, chatIdToDelete, t) ==
    LET wasActive == S.activeChatId = chatIdToDelete
        removed == [S EXCEPT !.chats =
                       [k \in DOMAIN S.chats \ {chatIdToDelete} |-> S.chats[k]]]
    IN  saveState(
            IF wasActive
            THEN IF DOMAIN removed.chats # {}
                 THEN setActiveChat(removed, Newest(DOMAIN removed.chats))
                 ELSE createNewChat(removed, t)
            ELSE removed)

\* mutant: the state is saved before the active conversation is looked up
addMessageAlwaysSaves(S, role, content) ==
    IF ~HasActiveChat(S) THEN saveState(S)
    ELSE LET activeChat == S.chats[S.activeChatId]
             messages == Append(activeChat.messages,
                                [role |-> role, content |-> content])
             title == IF Len(messages) = 1 /\ role = "user"
                      THEN TitleOf(content) ELSE activeChat.title
         IN  saveState([S EXCEPT !.chats[S.activeChatId] =
                 [activeChat EXCEPT !.messages = messages, !.title = title]])

addMessage(S, role, content) ==
    IF ~HasActiveChat(S) THEN S
    ELSE LET activeChat == S.chats[S.activeChatId]
             messages == Append(activeChat.messages,
                                [role |-> role, content |-> content])
             title == IF Len(messages) = 1 /\ role = "user"
                      THEN TitleOf(content) ELSE activeChat.title
         IN  saveState([S EXCEPT !.chats[S.activeChatId] =
                 [activeChat EXCEPT !.messages = messages, !.title = title]])

\* mutant: the turn is removed and the state is not saved
deleteMessageUnsaved(S, index) ==
    IF HasActiveChat(S) /\ index >= 0
          /\ index < Len(S.chats[S.activeChatId].messages)
    THEN LET m == S.chats[S.activeChatId].messages
         IN  [S EXCEPT !.chats[S.activeChatId].messages =
                 SubSeq(m, 1, index) \o SubSeq(m, index + 2, Len(m))]
    ELSE S

\* mutant: no typeof test, messages.splice(index, 1) and saveState whenever
\* there is an active conversation; splice counts a negative index from the end
deleteMessageSplice(S, index) ==
    IF HasActiveChat(S)
    THEN LET m == S.chats[S.activeChatId].messages
             at == IF index < 0 THEN (IF Len(m) + index < 0 THEN 0 ELSE Len(m) + index)
                   ELSE Min(index, Len(m))
         IN  saveState([S EXCEPT !.chats[S.activeChatId].messages =
                 SubSeq(m, 1, at) \o SubSeq(m, at + 2, Len(m))])
    ELSE S

\* mutant: messages.pop(), the last turn is removed
deleteMessagePop(S, index) ==
    IF HasActiveChat(S) /\ index >= 0
          /\ index < Len(S.chats[S.activeChatId].messages)
    THEN LET m == S.chats[S.activeChatId].messages
         IN  saveState([S EXCEPT !.chats[S.activeChatId].messages =
                 SubSeq(m, 1, Len(m) - 1)])
    ELSE S

\* index is 0-based, as in the code
deleteMessage(S, index) ==
    IF HasActiveChat(S) /\ index >= 0
          /\ index < Len(S.chats[S.activeChatId].messages)
    THEN LET m == S.chats[S.activeChatId].messages
         IN  saveState([S EXCEPT !.chats[S.activeChatId].messages =
                 SubSeq(m, 1, index) \o SubSeq(m, index + 2, Len(m))])
    ELSE S

\* the value addMessage returns: <<>> for undefined (line 659), or <<title>>
\* (line 667)
addMessageReturn(S, role, content) ==
    IF ~HasActiveChat(S) THEN <<>>
    ELSE <<addMessage(S, role, content).chats[S.activeChatId].title>>

updateSystemPrompt(S, prompt) ==
    IF HasActiveChat(S)
    THEN saveState([S EXCEPT !.chats[S.activeChatId].systemPrompt = prompt])
    ELSE S

updateSettings(S, newSettings) ==
    saveState([S EXCEPT !.settings = Merge(S.settings, newSettings)])


-----------------------------------------------------------------------------
(* The stream decoder: the body of the read loop of ChatApp._processStream *)

DataMarker == <<"d", "a", "t", "a", ":", " ">>
MarkerLen == 6

\* JSON lexemes of a frame payload
JOpen == "{\"choices\":[{\"delta\":{\"content\":\""
JClose == "\"}}]}"
JNoContent == "{\"choices\":[{\"delta\":{}}]}"
JNoChoices == "{}"
JBad == "{\"choices\":"
DoneToken == "[DONE]"

Lexemes == {JOpen, JClose, JNoContent, JNoChoices, JBad, DoneToken}

\* a character that may stand unescaped inside a JSON string
IsPlain(c) == c \notin Lexemes \cup {"\n", "\t"}

\* the escape sequences of a newline and of a tab inside a JSON string,
\* lexemes too
JNewline == "\\n"
JTab == "\\t"

\* the value of a JSON string: JSON.parse resolves the escape sequences
Unescape(s) ==
    [i \in 1..Len(s) |-> IF s[i] = JNewline THEN "\n"
                         ELSE IF s[i] = JTab THEN "\t" ELSE s[i]]

\* the JSON string of a text, as the server writes it
JsonString(text) ==
    [i \in 1..Len(text) |-> IF text[i] = "\n" THEN JNewline
                            ELSE IF text[i] = "\t" THEN JTab ELSE text[i]]

\* chunk.split('\n\n')
RECURSIVE Split(_)
Split(s) ==
    LET hits == {i \in 1..(Len(s) - 1) : s[i] = "\n" /\ s[i + 1] = "\n"}
    IN  IF hits = {} THEN <<s>>
        ELSE LET i == CHOOSE h \in hits : \A g \in hits : h <= g
             IN  <<SubSeq(s, 1, i - 1)>> \o
                 (CHOOSE r \in {Split(rest) : rest \in {SubSeq(s, i + 2, Len(s))}} : TRUE)

\* line.startsWith('data: ')
StartsWithMarker(line) ==
    Len(line) >= MarkerLen /\ SubSeq(line, 1, MarkerLen) = DataMarker

\* JSON.parse(data) followed by json.choices[0]?.delta?.content:
\* the content, or why there is none
JsonContent(data) ==
    LET d == Trim(data)
    IN  IF Len(d) >= 2 /\ d[1] = JOpen /\ d[Len(d)] = JClose
             /\ \A i \in 2..(Len(d) - 1) : IsPlain(d[i])
        THEN [kind |-> "content", content |-> Unescape(SubSeq(d, 2, Len(d) - 1))]
        ELSE IF d = <<JNoContent>> THEN [kind |-> "undefined", content |-> <<>>]
        ELSE IF d = <<JNoChoices>> THEN [kind |-> "TypeError", content |-> <<>>]
        ELSE [kind |-> "SyntaxError", content |-> <<>>]

\* mutant: fullResponse = content
RECURSIVE ProcessLinesAssign(_, _)
ProcessLinesAssign(fullResponse, lines) ==
    IF lines = <<>> THEN fullResponse
    ELSE LET line == Head(lines)
             data == SubSeq(line, MarkerLen + 1, Len(line))
             parsed == JsonContent(data)
         IN  IF ~StartsWithMarker(line)
             THEN ProcessLinesAssign(fullResponse, Tail(lines))
             ELSE IF Trim(data) = <<DoneToken>>
             THEN fullResponse
             ELSE IF parsed.kind = "content" /\ parsed.content # <<>>
             THEN ProcessLinesAssign(parsed.content, Tail(lines))
             ELSE ProcessLinesAssign(fullResponse, Tail(lines))

\* mutant: no try around JSON.parse, the loop over the lines ends at the error
RECURSIVE ProcessLinesUncaught(_, _)
ProcessLinesUncaught(fullResponse, lines) ==
    IF lines = <<>> THEN fullResponse
    ELSE LET line == Head(lines)
             data == SubSeq(line, MarkerLen + 1, Len(line))
             parsed == JsonContent(data)
         IN  IF ~StartsWithMarker(line)
             THEN ProcessLinesUncaught(fullResponse, Tail(lines))
             ELSE IF Trim(data) = <<DoneToken>>
             THEN fullResponse
             ELSE IF parsed.kind = "content"
             THEN ProcessLinesUncaught(fullResponse \o parsed.content, Tail(lines))
             ELSE IF parsed.kind = "undefined"
             THEN ProcessLinesUncaught(fullResponse, Tail(lines))
             ELSE fullResponse

\* mutant: continue at [DONE]
RECURSIVE ProcessLinesPastDone(_, _)
ProcessLinesPastDone(fullResponse, lines) ==
    IF lines = <<>> THEN fullResponse
    ELSE LET line == Head(lines)
             data == SubSeq(line, MarkerLen + 1, Len(line))
             parsed == JsonContent(data)
         IN  IF StartsWithMarker(line) /\ Trim(data) # <<DoneToken>>
                /\ parsed.kind = "content"
             THEN ProcessLinesPastDone(fullResponse \o parsed.content, Tail(lines))
             ELSE ProcessLinesPastDone(fullResponse, Tail(lines))

\* for (const line of lines) { ... }: the text accumulated after the lines
RECURSIVE ProcessLines(_, _)
ProcessLines(fullResponse, lines) ==
    IF lines = <<>> THEN fullResponse
    ELSE LET line == Head(lines)
             data == SubSeq(line, MarkerLen + 1, Len(line))
             parsed == JsonContent(data)
         IN  IF ~StartsWithMarker(line)
             THEN ProcessLines(fullResponse, Tail(lines))
             ELSE IF Trim(data) = <<DoneToken>>
             THEN fullResponse                                  \* break
             ELSE IF parsed.kind = "content"
             THEN ProcessLines(fullResponse \o parsed.content, Tail(lines))
             ELSE ProcessLines(fullResponse, Tail(lines))       \* none, or caught

ProcessChunk(fullResponse, chunk) ==
    CHOOSE r \in {ProcessLines(fullResponse, lines) : lines \in {Split(chunk)}} : TRUE

-----------------------------------------------------------------------------
(* Frames and response bodies *)

\* a chunk is the sequence of the pieces of text it carries
RECURSIVE ChunkText(_)
ChunkText(chunk) ==
    IF chunk = <<>> THEN <<>> ELSE Head(chunk) \o ChunkText(Tail(chunk))

Frame(payload) == DataMarker \o payload \o <<"\n", "\n">>
ContentFrame(c) == Frame(<<JOpen>> \o c \o <<JClose>>)
DoneFrame == Frame(<<DoneToken>>)


-----------------------------------------------------------------------------
(* The response formatter: UIManager._formatAssistantContent.  A fence     *)
(* (three backticks) and a literal <br> are lexemes: one element of the    *)
(* text, never cut.                                                        *)

Fence == "[FENCE]"       \* three backticks
Br == "<br>"
Bullet == "\\u2022"      \* the bullet character, one element of the text
Cursor == "\\u258B"      \* the cursor glyph of a bubble that is streamed
Digits == {"0", "1", "2", "3", "4", "5", "6", "7", "8", "9"}

\* F applied to the value of e, the value being computed once: a const
\* declaration of the source
With(e, F(_)) == CHOOSE r \in {F(v) : v \in {e}} : TRUE

\* the least index of a set of indexes, 0 when the set is empty
First(indexes) ==
    With({i : i \in indexes},
         LAMBDA found : IF found = {} THEN 0
                        ELSE CHOOSE i \in found : \A j \in found : i <= j)

\* the index of the first fence at or after i, 0 when there is none
FenceFrom(s, i) == First({j \in i..Len(s) : s[j] = Fence})

\* the index of the first newline at or after i, 0 when there is none
LineEnd(s, i) == First({j \in i..Len(s) : s[j] = "\n"})

\* (?:\|.*?\n)* from i, n lines being matched before i: <<the lines
\* matched, the index of the last character matched>>
RECURSIVE PipeLines(_, _, _)
PipeLines(s, i, n) ==
    IF i <= Len(s) /\ s[i] = "|" /\ LineEnd(s, i) # 0
    THEN PipeLines(s, LineEnd(s, i) + 1, n + 1)
    ELSE <<n, i - 1>>

\* protectedBlockRegex matched at p: the index of the last character of the
\* match, 0 when there is none: a fence, [\s\S]*? and a fence, or
\* (?:\n|^)(?:\|.*?\n){2,}
MatchAt(s, p) ==
    IF s[p] = Fence /\ FenceFrom(s, p + 1) # 0 THEN FenceFrom(s, p + 1)
    ELSE IF s[p] = "\n" /\ PipeLines(s, p + 1, 0)[1] >= 2 THEN PipeLines(s, p + 1, 0)[2]
    ELSE IF p = 1 /\ PipeLines(s, 1, 0)[1] >= 2 THEN PipeLines(s, 1, 0)[2]
    ELSE 0

\* text.split(protectedBlockRegex) from the split position from: the parts,
\* those at the even places being the matches
RECURSIVE SplitFrom(_, _)
SplitFrom(s, from) ==
    With(First({q \in from..Len(s) :
                  s[q] \in {Fence, "\n", "|"} /\ MatchAt(s, q) # 0}),
         LAMBDA p :
           IF p = 0 THEN <<SubSeq(s, from, Len(s))>>
           ELSE With(MatchAt(s, p),
                     LAMBDA e : <<SubSeq(s, from, p - 1), SubSeq(s, p, e)>>
                                    \o SplitFrom(s, e + 1)))

\* the index of the first character at or after i that is no white space
SkipSpace(s, i) ==
    First({j \in i..(Len(s) + 1) : j = Len(s) + 1 \/ s[j] \notin WhiteSpace})

\* the index of the first character at or after i that is no digit
SkipDigits(s, i) ==
    First({j \in i..(Len(s) + 1) : j = Len(s) + 1 \/ s[j] \notin Digits})

\* ([*-]|\d+\.) matched at q: the index of its last character, 0 when none
MarkerEnd(s, q) ==
    IF q > Len(s) THEN 0
    ELSE IF s[q] \in {"*", "-"} THEN q
    ELSE IF s[q] \in Digits
    THEN LET d == SkipDigits(s, q)
         IN  IF d <= Len(s) /\ s[d] = "." THEN d ELSE 0
    ELSE 0

\* \s*([*-]|\d+\.)\s+ matched at p: the index of the last character of the
\* match, 0 when there is none
BulletAt(s, p) ==
    LET m == MarkerEnd(s, SkipSpace(s, p))
    IN  IF m = 0 \/ m + 1 > Len(s) THEN 0
        ELSE IF s[m + 1] \notin WhiteSpace THEN 0
        ELSE SkipSpace(s, m + 1) - 1

\* .replace(/^\s*([*-]|\d+\.)\s+/gm, bullet and space) from the index from on
RECURSIVE ReplaceBullets(_, _)
ReplaceBullets(s, from) ==
    With(First({q \in from..Len(s) :
                  (q = 1 \/ s[q - 1] = "\n") /\ BulletAt(s, q) # 0}),
         LAMBDA p :
           IF p = 0 THEN SubSeq(s, from, Len(s))
           ELSE With(BulletAt(s, p),
                     LAMBDA e : SubSeq(s, from, p - 1) \o <<Bullet, " ">>
                                    \o ReplaceBullets(s, e + 1)))

\* the index of the first character at or after i that is no newline
SkipNewlines(s, i) ==
    First({j \in i..(Len(s) + 1) : j = Len(s) + 1 \/ s[j] # "\n"})

\* .replace(/\n\n+/g, '<br>') from the index from on
RECURSIVE ReplaceBlankLines(_, _)
ReplaceBlankLines(s, from) ==
    With(First({q \in from..(Len(s) - 1) : s[q] = "\n" /\ s[q + 1] = "\n"}),
         LAMBDA p :
           IF p = 0 THEN SubSeq(s, from, Len(s))
           ELSE With(SkipNewlines(s, p),
                     LAMBDA e : SubSeq(s, from, p - 1) \o <<Br>>
                                    \o ReplaceBlankLines(s, e)))

\* .replace(/\n/g, '<br>')
ReplaceNewlines(s) == [i \in 1..Len(s) |-> IF s[i] = "\n" THEN Br ELSE s[i]]

\* .replace(/<br>/g, '\n\n') from the index from on
RECURSIVE ReplaceBr(_, _)
ReplaceBr(s, from) ==
    With(First({q \in from..Len(s) : s[q] = Br}),
         LAMBDA p :
           IF p = 0 THEN SubSeq(s, from, Len(s))
           ELSE SubSeq(s, from, p - 1) \o <<"\n", "\n">> \o ReplaceBr(s, p + 1))

\* the callback of parts.map, index counted from 0
FormatPart(part, index) ==
    IF part = <<>> THEN <<>>
    ELSE IF index % 2 = 1 THEN part
    ELSE With(ReplaceBullets(part, 1), LAMBDA bulleted :
         With(Trim(bulleted), LAMBDA formattedText :
           IF Len(formattedText) > 0
           THEN With(ReplaceBlankLines(formattedText, 1), LAMBDA blank :
                With(ReplaceNewlines(blank), LAMBDA breaks :
                     ReplaceBr(breaks, 1)))
           ELSE formattedText))

\* formattedParts.join('')
RECURSIVE Join(_)
Join(parts) ==
    IF parts = <<>> THEN <<>> ELSE Head(parts) \o Join(Tail(parts))

\* UIManager._formatAssistantContent
formatAssistantContent(text) ==
    IF text = <<>> THEN <<>>
    ELSE With(text, LAMBDA t :
         With(SplitFrom(t, 1), LAMBDA parts :
         With([i \in 1..Len(parts) |-> FormatPart(parts[i], i - 1)],
              LAMBDA formattedParts :
         With(Join(formattedParts), LAMBDA joined : Trim(joined)))))

-----------------------------------------------------------------------------
(* The state of the program as a store value, and back *)

Store ==
    [chats |-> chats, activeChatId |-> activeChatId, settings |-> settings,
     storage |-> storage]

SetStore(S) ==
    /\ chats' = S.chats
    /\ activeChatId' = S.activeChatId
    /\ settings' = S.settings
    /\ storage' = S.storage

\* ChatApp._createNewChat
appCreateNewChat(S, t) ==
    LET created == createNewChat(S, t)
    IN  setActiveChat(created, created.activeChatId)

\* ChatApp._deleteChat, the confirm dialog accepted
appDeleteChat(S, chatIdToDelete, t) ==
    LET deleted == deleteChat(S, chatIdToDelete, t)
    IN  setActiveChat(deleted, deleted.activeChatId)

\* the constructors: new StateManager(), then ChatApp._init
appInit(stored, t) ==
    LET state == initState(stored)
    IN  IF DOMAIN state.chats = {}
        THEN appCreateNewChat(state, t)
        ELSE setActiveChat(state, state.activeChatId)

-----------------------------------------------------------------------------
(* Inputs *)

Times == 1..MaxTime
Ids == {ChatId(t) : t \in Times}

Hi == <<"H", "i">>
CustomPrompt == <<"B", "e", " ", "b", "r", "i", "e", "f", ".">>

Roles == {"user", "assistant"}
Contents == {Hi}
Prompts == {DefaultPrompt, CustomPrompt}

\* the values of the settings widgets
NewSettings == {[fontSize |-> 5]}

\* a conversation as a previous session may have persisted it
SavedChat(id) ==
    {[id |-> id, title |-> DefaultTitle, messages |-> <<>>,
      systemPrompt |-> DefaultPrompt],
     [id |-> id, title |-> Hi,
      messages |-> <<[role |-> "user", content |-> Hi]>>,
      systemPrompt |-> CustomPrompt]}

SavedChats(t) ==
    UNION {[ids -> UNION {SavedChat(i) : i \in ids}] : ids \in SUBSET {ChatId(u) : u \in 1..t}}

\* the persisted blobs: the whole state, or a part of its fields
SavedBlobs(t) ==
    LET full == {[chats |-> c, activeChatId |-> a, settings |-> g] :
                    c \in {f \in SavedChats(t) : \A i \in DOMAIN f : f[i].id = i},
                    a \in Ids \cup {Null},
                    g \in {DefaultSettings, [fontSize |-> 5], <<>>}}
    IN  full \cup {[k \in (DOMAIN b \ {"settings"}) |-> b[k]] : b \in full}
             \cup {[k \in (DOMAIN b \ {"activeChatId"}) |-> b[k]] : b \in full}
             \cup {<<>>}

\* localStorage before the page loads
SavedStorage(t) == {<<>>} \cup {<<b>> : b \in SavedBlobs(t)}

NoSubs == [k \in 1..MaxSubs |-> [pc |-> "new"]]

-----------------------------------------------------------------------------
(* The store operations, applied by the handlers of the page *)

TotalTurns(S) ==
    LET RECURSIVE Sum(_)
        Sum(ids) == IF ids = {} THEN 0
                    ELSE LET i == CHOOSE j \in ids : TRUE
                         IN  Len(S.chats[i].messages) + Sum(ids \ {i})
    IN  Sum(DOMAIN S.chats)

Tick ==
    /\ now < MaxTime
    /\ now' = now + 1
    /\ UNCHANGED <<chats, activeChatId, settings, storage, apiService, typing, subs, call>>

Rest == <<now, apiService, typing, subs>>

NoCall == [op |-> "none", args |-> <<>>]

Called(op, args) == call' = [op |-> op, args |-> args]

CreateNewChat ==
    /\ SetStore(createNewChat(Store, now))
    /\ Called("createNewChat", <<>>)
    /\ UNCHANGED Rest

DeleteChat(id) ==
    /\ SetStore(deleteChat(Store, id, now))
    /\ Called("deleteChat", <<id>>)
    /\ UNCHANGED Rest

SetActiveChat(id) ==
    /\ SetStore(setActiveChat(Store, id))
    /\ Called("setActiveChat", <<id>>)
    /\ UNCHANGED Rest

AddMessage(role, content) ==
    /\ TotalTurns(Store) < MaxTurns
    /\ SetStore(addMessage(Store, role, content))
    /\ call' = [op |-> "addMessage", args |-> <<role, content>>,
                result |-> addMessageReturn(Store, role, content)]
    /\ UNCHANGED Rest

DeleteMessage(index) ==
    /\ SetStore(deleteMessage(Store, index))
    /\ Called("deleteMessage", <<index>>)
    /\ UNCHANGED Rest

UpdateSystemPrompt(prompt) ==
    /\ SetStore(updateSystemPrompt(Store, prompt))
    /\ Called("updateSystemPrompt", <<prompt>>)
    /\ UNCHANGED Rest

UpdateSettings(newSettings) ==
    /\ SetStore(updateSettings(Store, newSettings))
    /\ Called("updateSettings", <<newSettings>>)
    /\ UNCHANGED Rest

InitStore ==
    /\ now \in Times
    /\ \E stored \in SavedStorage(now) :
          LET S == appInit(stored, now)
          IN  /\ chats = S.chats
              /\ activeChatId = S.activeChatId
              /\ settings = S.settings
              /\ storage = S.storage
    /\ apiService = TRUE
    /\ typing = FALSE
    /\ subs = NoSubs
    /\ call = NoCall

NextStore ==
    \/ Tick
    \/ CreateNewChat
    \/ \E id \in Ids \cup {Null} : DeleteChat(id)
    \/ \E id \in Ids \cup {Null} : SetActiveChat(id)
    \/ \E role \in Roles, content \in Contents : AddMessage(role, content)
    \/ \E index \in -1..MaxTurns : DeleteMessage(index)
    \/ \E prompt \in Prompts : UpdateSystemPrompt(prompt)
    \/ \E newSettings \in NewSettings : UpdateSettings(newSettings)

StoreSpec == InitStore /\ [][NextStore]_vars

-----------------------------------------------------------------------------
(* The StateManager alone: the state new StateManager() reads from         *)
(* localStorage, before ChatApp._init has selected or created a            *)
(* conversation, under the calls of its methods.                           *)

InitManager ==
    /\ now \in Times
    /\ \E stored \in SavedStorage(now) :
          LET S == initState(stored)
          IN  /\ chats = S.chats
              /\ activeChatId = S.activeChatId
              /\ settings = S.settings
              /\ storage = S.storage
    /\ apiService = TRUE
    /\ typing = FALSE
    /\ subs = NoSubs
    /\ call = NoCall

ManagerSpec == InitManager /\ [][NextStore]_vars

-----------------------------------------------------------------------------
(* The turns of one conversation: addMessage and deleteMessage on the      *)
(* active conversation, with contents around the length of a title.        *)

Long30 == [i \in 1..TitleMax |-> "a"]
Long31 == Long30 \o <<"b">>

TitleContents == {Hi, Long30, Long31}

NextMessage ==
    \/ \E role \in Roles, content \in TitleContents : AddMessage(role, content)
    \/ \E index \in -1..MaxTurns : DeleteMessage(index)

MessageSpec == InitStore /\ [][NextMessage]_vars


-----------------------------------------------------------------------------
(* One submission: ChatApp._handleFormSubmit, ApiService.query and         *)
(* ChatApp._processStream.  subs[k] is the k-th execution of the handler:  *)
(*   pc        "new" (not started), "rejected" (returned at the guard),    *)
(*             "sending" (awaits query), "streaming" (awaits reader.read), *)
(*             "done" (returned), "threw" (left by an uncaught error)      *)
(*   input     the value of the input field at the submit event            *)
(*   requests  the number of fetch calls made                              *)
(*   payload   the body of the request in flight                           *)
(*   stream, ending, pos   the chunks of the response body, how it ends    *)
(*             after them ("done" or "error"), the chunks read so far      *)
(*   fullResponse   the text accumulated by _processStream                 *)
(*   path      the exit taken: "success", "nobody", "requestError",        *)
(*             "streamError"                                               *)
(*   error     the message of the error caught                             *)
(*   chat      the conversation that was active at the submit event and    *)
(*             received the user turn, kept while the reply is awaited     *)
(*   bubble    the bubble of the reply: the call that rendered it last     *)
(*             (by) and the markdown text handed to the renderer (text)    *)
(*   frameRequested, frames   the flag of _processStream, and the          *)
(*             callbacks requestAnimationFrame holds for its render        *)
(* The payload and the body are dropped when the execution is done with    *)
(* them; the accumulated text stays with the render closure.               *)

\* UIManager.createAssistantMessagePlaceholder
createAssistantMessagePlaceholder == [by |-> "placeholder", text |-> <<>>]

\* UIManager.updateStreamedMessage
updateStreamedMessage(fullResponse) ==
    [by |-> "update", text |-> fullResponse \o <<Cursor>>]

\* UIManager.finalizeStreamedMessage
finalizeStreamedMessage(fullResponse) ==
    [by |-> "finalize", text |-> formatAssistantContent(fullResponse)]

FetchFailure == <<"F", "a", "i", "l", "e", "d", " ", "t", "o", " ", "f", "e", "t", "c", "h">>
ReadFailure == <<"n", "e", "t", "w", "o", "r", "k", " ", "e", "r", "r", "o", "r">>

\* `API Error: ${response.status} ${response.statusText} - ${errorBody}`
ApiErrorMessage(status, statusText, errorBody) ==
    ApiErrorPrefix \o status \o <<" ">> \o statusText \o <<" ", "-", " ">> \o errorBody

ApiErrors == {ApiErrorMessage(<<"5", "0", "0">>, <<>>, <<"d", "o", "w", "n">>)}

\* `Lo siento, ha ocurrido un error: ${error.message}`
ErrorText(message) == ErrorPrefix \o message

\* ChatApp._prepareApiPayload
prepareApiPayload(S) ==
    LET activeChat == S.chats[S.activeChatId]
    IN  [model |-> "openai/gpt-oss-120b:novita",
         messages |-> <<[role |-> "system", content |-> activeChat.systemPrompt]>>
                      \o [i \in 1..Len(activeChat.messages) |->
                            [role |-> activeChat.messages[i].role,
                             content |-> activeChat.messages[i].content]],
         stream |-> TRUE]

InFlight == {k \in 1..MaxSubs : subs[k].pc \in {"sending", "streaming"}}

\* mutant: the guard tests the input alone
AcceptedWithoutService(input) == Trim(input) # <<>>

\* the submit event is accepted: lines 82-83
Accepted(input) == Trim(input) # <<>> /\ apiService

\* the next execution of the handler
NextSub(k) == subs[k].pc = "new" /\ \A j \in 1..(k - 1) : subs[j].pc # "new"

\* lines 80-86: the guard returns
SubmitRejected(k, input) ==
    /\ NextSub(k)
    /\ ~Accepted(input)
    /\ subs' = [subs EXCEPT ![k] = [pc |-> "rejected", input |-> input, requests |-> 0]]
    /\ UNCHANGED <<chats, activeChatId, settings, storage, now, apiService, typing, call>>

\* mutant: the payload is built before the user turn is appended
SubmitPayloadFirst(k, input, promptInput) ==
    /\ NextSub(k)
    /\ Accepted(input)
    /\ TotalTurns(Store) + Cardinality(InFlight) + 2 <= MaxLog
    /\ LET prompted == updateSystemPrompt(Store, promptInput)
           added == addMessage(prompted, "user", Trim(input))
       IN  /\ SetStore(added)
           /\ subs' = [subs EXCEPT ![k] =
                 IF HasActiveChat(added)
                 THEN [pc |-> "sending", input |-> input,
                       payload |-> prepareApiPayload(prompted), requests |-> 1,
                       chat |-> added.activeChatId,
                       bubble |-> createAssistantMessagePlaceholder]
                 \* getActiveChat() is undefined: line 101 throws
                 ELSE [pc |-> "threw", input |-> input, requests |-> 0]]
    /\ typing' = TRUE
    /\ UNCHANGED <<now, apiService, call>>

\* lines 80-105, to the await of the query
Submit(k, input, promptInput) ==
    /\ NextSub(k)
    /\ Accepted(input)
    /\ TotalTurns(Store) + Cardinality(InFlight) + 2 <= MaxLog
    /\ LET prompted == updateSystemPrompt(Store, promptInput)
           added == addMessage(prompted, "user", Trim(input))
       IN  /\ SetStore(added)
           /\ subs' = [subs EXCEPT ![k] =
                 IF HasActiveChat(added)
                 THEN [pc |-> "sending", input |-> input,
                       payload |-> prepareApiPayload(added), requests |-> 1,
                       chat |-> added.activeChatId,
                       bubble |-> createAssistantMessagePlaceholder]
                 \* getActiveChat() is undefined: line 101 throws
                 ELSE [pc |-> "threw", input |-> input, requests |-> 0]]
    /\ typing' = TRUE
    /\ UNCHANGED <<now, apiService, call>>

\* the execution has returned by the exit path, the final render having
\* shown the text: what stays is the bubble and the closure of render
Settled(k, path, error, shown) ==
    LET streamed == subs[k].pc = "streaming"
    IN  [pc |-> "done", input |-> subs[k].input, requests |-> subs[k].requests,
         path |-> path, error |-> error,
         fullResponse |-> IF streamed THEN subs[k].fullResponse ELSE <<>>,
         frameRequested |-> streamed /\ subs[k].frameRequested,
         frames |-> IF streamed THEN subs[k].frames ELSE 0,
         bubble |-> finalizeStreamedMessage(shown)]

\* mutant: the text accumulated so far is committed
CaughtPartial(k, message, path) ==
    /\ SetStore(addMessage(Store, "assistant",
          IF subs[k].pc = "streaming" THEN subs[k].fullResponse ELSE <<>>))
    /\ typing' = FALSE
    /\ subs' = [subs EXCEPT ![k] =
          Settled(k, path, message, ErrorText(message))]
    /\ UNCHANGED <<now, apiService, call>>

\* mutant: the indicator is cleared in the try block, not in a finally
CaughtNoCleanup(k, message, path) ==
    /\ SetStore(addMessage(Store, "assistant", ErrorText(message)))
    /\ typing' = typing
    /\ subs' = [subs EXCEPT ![k] =
          Settled(k, path, message, ErrorText(message))]
    /\ UNCHANGED <<now, apiService, call>>

\* lines 115-123: catch and finally
Caught(k, message, path) ==
    /\ SetStore(addMessage(Store, "assistant", ErrorText(message)))
    /\ typing' = FALSE
    /\ subs' = [subs EXCEPT ![k] =
          Settled(k, path, message, ErrorText(message))]
    /\ UNCHANGED <<now, apiService, call>>

\* fetch rejects: api.js lines 20-23
NetworkFailure(k) ==
    /\ subs[k].pc = "sending"
    /\ Caught(k, FetchFailure, "requestError")

\* the response is not ok: api.js lines 15-18
ApiError(k, message) ==
    /\ subs[k].pc = "sending"
    /\ Caught(k, message, "requestError")

\* mutant: the error text is rendered and not committed
RespondNoBodyUncommitted(k) ==
    /\ subs[k].pc = "sending"
    /\ typing' = FALSE
    /\ subs' = [subs EXCEPT ![k] =
          Settled(k, "nobody", Null, NoBodyText)]
    /\ UNCHANGED <<chats, activeChatId, settings, storage, now, apiService, call>>

\* the response has no body: lines 110-114, 120-123
RespondNoBody(k) ==
    /\ subs[k].pc = "sending"
    /\ SetStore(addMessage(Store, "assistant", NoBodyText))
    /\ typing' = FALSE
    /\ subs' = [subs EXCEPT ![k] =
          Settled(k, "nobody", Null, NoBodyText)]
    /\ UNCHANGED <<now, apiService, call>>

\* the response is ok and has a body: lines 107-108, 139-150
RespondOk(k, stream, ending) ==
    /\ subs[k].pc = "sending"
    /\ subs' = [subs EXCEPT ![k] =
          [pc |-> "streaming", input |-> subs[k].input,
           requests |-> subs[k].requests, chat |-> subs[k].chat,
           stream |-> stream, ending |-> ending,
           pos |-> 0, fullResponse |-> <<>>,
           frameRequested |-> FALSE, frames |-> 0, bubble |-> subs[k].bubble]]
    /\ UNCHANGED <<chats, activeChatId, settings, storage, now, apiService, typing, call>>

\* mutant: a frame is requested at every chunk that appends, no flag
ReadChunkAlwaysRequests(k) ==
    /\ subs[k].pc = "streaming"
    /\ subs[k].pos < Len(subs[k].stream)
    /\ \E chunk \in {ChunkText(subs[k].stream[subs[k].pos + 1])} :
       \E text \in {ProcessChunk(subs[k].fullResponse, chunk)} :
          subs' = [subs EXCEPT ![k].pos = @ + 1,
                               ![k].fullResponse = text,
                               ![k].frameRequested = @ \/ text # subs[k].fullResponse,
                               ![k].frames = IF text # subs[k].fullResponse
                                             THEN @ + 1 ELSE @]
    /\ UNCHANGED <<chats, activeChatId, settings, storage, now, apiService, typing, call>>

\* reader.read() yields a chunk: lines 150-175.  Content has been appended
\* when the text has changed; the first append of the chunk requests a frame
\* unless one is requested.
ReadChunk(k) ==
    /\ subs[k].pc = "streaming"
    /\ subs[k].pos < Len(subs[k].stream)
    /\ \E chunk \in {ChunkText(subs[k].stream[subs[k].pos + 1])} :
       \E text \in {ProcessChunk(subs[k].fullResponse, chunk)} :
          subs' = [subs EXCEPT ![k].pos = @ + 1,
                               ![k].fullResponse = text,
                               ![k].frameRequested = @ \/ text # subs[k].fullResponse,
                               ![k].frames = IF text # subs[k].fullResponse
                                                /\ ~subs[k].frameRequested
                                             THEN @ + 1 ELSE @]
    /\ UNCHANGED <<chats, activeChatId, settings, storage, now, apiService, typing, call>>

\* the browser runs a callback of requestAnimationFrame: render, lines
\* 144-147.  Nothing cancels the callback when _processStream returns.
RenderFrame(k) ==
    /\ subs[k].pc \in {"streaming", "done"}
    /\ subs[k].frames > 0
    /\ subs' = [subs EXCEPT ![k].bubble = updateStreamedMessage(subs[k].fullResponse),
                            ![k].frameRequested = FALSE,
                            ![k].frames = @ - 1]
    /\ UNCHANGED <<chats, activeChatId, settings, storage, now, apiService, typing, call>>

\* mutant: the text of the final render is committed
ReadDoneCommitsFormatted(k) ==
    /\ subs[k].pc = "streaming"
    /\ subs[k].pos = Len(subs[k].stream)
    /\ subs[k].ending = "done"
    /\ SetStore(addMessage(Store, "assistant",
                           formatAssistantContent(subs[k].fullResponse)))
    /\ typing' = FALSE
    /\ subs' = [subs EXCEPT ![k] =
          Settled(k, "success", Null, subs[k].fullResponse)]
    /\ UNCHANGED <<now, apiService, call>>

\* reader.read() yields done: lines 151, 177-178, 109, 120-123
ReadDone(k) ==
    /\ subs[k].pc = "streaming"
    /\ subs[k].pos = Len(subs[k].stream)
    /\ subs[k].ending = "done"
    /\ SetStore(addMessage(Store, "assistant", subs[k].fullResponse))
    /\ typing' = FALSE
    /\ subs' = [subs EXCEPT ![k] =
          Settled(k, "success", Null, subs[k].fullResponse)]
    /\ UNCHANGED <<now, apiService, call>>

\* reader.read() rejects: lines 115-123
ReadError(k) ==
    /\ subs[k].pc = "streaming"
    /\ subs[k].pos = Len(subs[k].stream)
    /\ subs[k].ending = "error"
    /\ Caught(k, ReadFailure, "streamError")


-----------------------------------------------------------------------------
(* Response bodies *)

Hel == <<"H", "e", "l">>
Lo == <<"l", "o">>

\* the chunk sequence of the decoder's example: "Hel", "lo", [DONE]
HelloStream == <<<<ContentFrame(Hel)>>, <<ContentFrame(Lo)>>, <<DoneFrame>>>>

\* the frames a body is made of: content, the sentinel, payloads that do not
\* parse or lack the choices structure, a delta without content, and a
\* segment that is no data line
FrameContents == {Hel, Lo}
MalformedFrames == {Frame(<<JBad>>), Frame(<<JNoChoices>>)}
CommentSegment == <<":", "\n", "\n">>

Frames ==
    {ContentFrame(c) : c \in FrameContents} \cup MalformedFrames
        \cup {DoneFrame, Frame(<<JNoContent>>), CommentSegment}

\* a chunk holds one or two whole frames
Chunks == {<<f>> : f \in Frames} \cup {<<f, g>> : f, g \in Frames}

RECURSIVE SeqsUpTo(_, _)
SeqsUpTo(S, n) ==
    IF n = 0 THEN {<<>>}
    ELSE LET shorter == SeqsUpTo(S, n - 1)
         IN  shorter \cup {Append(q, x) : q \in shorter, x \in S}

Streams == SeqsUpTo(Chunks, MaxChunks) \cup {HelloStream}

Endings == {"done", "error"}

\* the bodies served while the store operations interleave
FewStreams == {<<<<ContentFrame(Hel)>>, <<ContentFrame(Lo), DoneFrame>>>>}

-----------------------------------------------------------------------------
(* The page: the handlers of the sidebar and of the chat log interleave    *)
(* with the submissions at their awaits.                                   *)

\* the input field at a submit event
Inputs == {<<" ", "H", "i", "\n">>, <<" ", "\n">>}

\* click on "new chat": ChatApp._createNewChat
AppCreateNewChat ==
    /\ SetStore(appCreateNewChat(Store, now))
    /\ UNCHANGED <<now, apiService, typing, subs, call>>

\* click on the delete button of a conversation of the list: ChatApp._deleteChat
AppDeleteChat(id) ==
    /\ id \in DOMAIN chats
    /\ SetStore(appDeleteChat(Store, id, now))
    /\ UNCHANGED <<now, apiService, typing, subs, call>>

\* click on a conversation of the list: ChatApp._setActiveChat
AppSetActiveChat(id) ==
    /\ id \in DOMAIN chats
    /\ SetStore(setActiveChat(Store, id))
    /\ UNCHANGED <<now, apiService, typing, subs, call>>

\* click on the delete button of a bubble: ChatApp._deleteMessage.  The
\* placeholder of a streamed reply carries the index messages.length.
AppDeleteMessage(index) ==
    /\ HasActiveChat(Store)
    /\ index \in 0..Len(chats[activeChatId].messages)
    /\ SetStore(deleteMessage(Store, index))
    /\ UNCHANGED <<now, apiService, typing, subs, call>>

\* click on the save button of the system prompt: ChatApp._saveSystemPrompt
AppSaveSystemPrompt(prompt) ==
    /\ SetStore(updateSystemPrompt(Store, prompt))
    /\ UNCHANGED <<now, apiService, typing, subs, call>>

AppTick ==
    /\ now < MaxClock
    /\ now' = now + 1
    /\ UNCHANGED <<chats, activeChatId, settings, storage, apiService, typing, subs, call>>

Init ==
    /\ now = 1
    /\ apiService \in BOOLEAN
    /\ LET S == appInit(<<>>, now)
       IN  /\ chats = S.chats
           /\ activeChatId = S.activeChatId
           /\ settings = S.settings
           /\ storage = S.storage
    /\ typing = FALSE
    /\ subs = NoSubs
    /\ call = NoCall

Submission(k) ==
    \/ \E input \in Inputs : SubmitRejected(k, input)
    \/ \E input \in Inputs, promptInput \in Prompts : Submit(k, input, promptInput)
    \/ NetworkFailure(k)
    \/ \E message \in ApiErrors : ApiError(k, message)
    \/ RespondNoBody(k)
    \/ \E stream \in FewStreams, ending \in Endings : RespondOk(k, stream, ending)
    \/ ReadChunk(k)
    \/ ReadDone(k)
    \/ ReadError(k)

Next ==
    \/ AppTick
    \/ AppCreateNewChat
    \/ \E id \in Ids : AppDeleteChat(id)
    \/ \E id \in Ids : AppSetActiveChat(id)
    \/ \E index \in 0..MaxLog : AppDeleteMessage(index)
    \/ \E prompt \in Prompts : AppSaveSystemPrompt(prompt)
    \/ \E k \in 1..MaxSubs : Submission(k)

Spec == Init /\ [][Next]_vars


-----------------------------------------------------------------------------
(* The decoder alone: one submission, served every body of Streams *)

InitStream ==
    /\ Init
    /\ apiService = TRUE

NextStream ==
    \/ \E input \in Inputs : Submit(1, input, DefaultPrompt)
    \/ \E stream \in Streams, ending \in Endings : RespondOk(1, stream, ending)
    \/ ReadChunk(1)
    \/ ReadDone(1)
    \/ ReadError(1)

StreamSpec == InitStream /\ [][NextStream]_vars

-----------------------------------------------------------------------------
(* The page under the scheduling of the browser: a request that has been   *)
(* sent is answered or fails, and a body that is read delivers its chunks   *)
(* and then ends or fails.                                                  *)

Resolve(k) ==
    \/ NetworkFailure(k)
    \/ \E message \in ApiErrors : ApiError(k, message)
    \/ RespondNoBody(k)
    \/ \E stream \in FewStreams, ending \in Endings : RespondOk(k, stream, ending)
    \/ ReadChunk(k)
    \/ ReadDone(k)
    \/ ReadError(k)

\* the submissions, and the conversations created while they are in flight
NextLive ==
    \/ AppTick
    \/ AppCreateNewChat
    \/ \E k \in 1..MaxSubs : Submission(k)

LiveSpec ==
    Init /\ [][NextLive]_vars /\ \A k \in 1..MaxSubs : WF_vars(Resolve(k))


-----------------------------------------------------------------------------
(* Properties of the store (StoreSpec) *)

\* C1: in every state reached from the bootstrap by the store operations, if
\* the chats mapping is non-empty then activeChatId is the id of a chat of
\* the mapping.
C1_ActiveChatResolves ==
    DOMAIN chats # {} => activeChatId \in DOMAIN chats

\* a conversation has been deleted, two remain and the active one is one of them
C1_Witness ==
    /\ call.op = "deleteChat"
    /\ call.args[1] \in Ids \ DOMAIN chats
    /\ Cardinality(DOMAIN chats) = 2
    /\ activeChatId \in DOMAIN chats

\* C5: after every store operation the persisted blob is the serialization of
\* the in-memory state.
C5_WriteThrough ==
    storage = <<Serialize(Store)>>

\* deleteMessage has removed a turn, and the blob holds the turns that remain
C5_Witness ==
    /\ call.op = "deleteMessage"
    /\ call.args[1] = 0
    /\ Len(chats[activeChatId].messages) = 1
    /\ TotalTurns(Store) = 1
    /\ storage[1].chats[activeChatId].messages = chats[activeChatId].messages

\* C10: deleteChat(activeChatId), when another conversation exists, leaves
\* activeChatId at the remaining conversation with the greatest creation
\* time, and creates no conversation.
C10_DeleteActiveSelectsNewest ==
    [][(/\ DeleteChat(activeChatId)
        /\ activeChatId \in DOMAIN chats
        /\ Cardinality(DOMAIN chats) >= 2)
       => (/\ DOMAIN chats' = DOMAIN chats \ {activeChatId}
           /\ activeChatId' \in DOMAIN chats'
           /\ \A j \in DOMAIN chats' : ChatTime(j) <= ChatTime(activeChatId'))]_vars

\* the newest of three conversations has been deleted, and of the two that
\* remain the newer is active
C10_Witness ==
    /\ call = [op |-> "deleteChat", args |-> <<ChatId(3)>>]
    /\ DOMAIN chats = {ChatId(1), ChatId(2)}
    /\ activeChatId = ChatId(2)


-----------------------------------------------------------------------------
(* Properties of the decoder (StreamSpec) *)

Streaming == {k \in 1..MaxSubs : subs[k].pc = "streaming"}

\* the chunks read so far
ChunksRead(k) == SubSeq(subs[k].stream, 1, subs[k].pos)

\* the content value a frame carries
ContentOfFrame(f) ==
    IF \E c \in FrameContents : f = ContentFrame(c)
    THEN CHOOSE c \in FrameContents : f = ContentFrame(c)
    ELSE <<>>

RECURSIVE ContentsOf(_)
ContentsOf(frames) ==
    IF frames = <<>> THEN <<>>
    ELSE ContentOfFrame(Head(frames)) \o ContentsOf(Tail(frames))

\* the frames of a chunk that stand before its first [DONE] frame
RECURSIVE BeforeDone(_)
BeforeDone(frames) ==
    IF frames = <<>> \/ Head(frames) = DoneFrame THEN <<>>
    ELSE <<Head(frames)>> \o BeforeDone(Tail(frames))

RECURSIVE Without(_, _)
Without(frames, dropped) ==
    IF frames = <<>> THEN <<>>
    ELSE (IF Head(frames) \in dropped THEN <<>> ELSE <<Head(frames)>>)
             \o Without(Tail(frames), dropped)

\* the text the read loop accumulates from a sequence of chunks
RECURSIVE Decode(_, _)
Decode(fullResponse, chunks) ==
    IF chunks = <<>> THEN fullResponse
    ELSE Decode(ProcessChunk(fullResponse, ChunkText(Head(chunks))), Tail(chunks))

RECURSIVE AllContents(_)
AllContents(chunks) ==
    IF chunks = <<>> THEN <<>>
    ELSE ContentsOf(Head(chunks)) \o AllContents(Tail(chunks))

RECURSIVE ContentsBeforeDone(_)
ContentsBeforeDone(chunks) ==
    IF chunks = <<>> THEN <<>>
    ELSE ContentsOf(BeforeDone(Head(chunks))) \o ContentsBeforeDone(Tail(chunks))

OnlyDataFrames(chunks) ==
    \A i \in 1..Len(chunks) : \A j \in 1..Len(chunks[i]) :
        chunks[i][j] # CommentSegment

\* C6 as stated: for chunks of whole data frames the accumulated text is the
\* concatenation, in arrival order, of the content values of all frames.
C6_AllFramesContribute ==
    \A k \in Streaming :
        OnlyDataFrames(ChunksRead(k))
            => subs[k].fullResponse = AllContents(ChunksRead(k))

\* C6 amended: for chunks of whole data frames the accumulated text is the
\* concatenation, in arrival order, of the content values of the frames that
\* no [DONE] frame precedes in their chunk; for the chunks "Hel", "lo", [DONE]
\* it is "Hello".
C6_FramesBeforeDoneContribute ==
    \A k \in Streaming :
        /\ OnlyDataFrames(ChunksRead(k))
              => subs[k].fullResponse = ContentsBeforeDone(ChunksRead(k))
        /\ ChunksRead(k) = HelloStream
              => subs[k].fullResponse = <<"H", "e", "l", "l", "o">>

\* the three chunks of the example have been read
C6_Witness ==
    /\ subs[1].pc = "streaming"
    /\ subs[1].stream = HelloStream
    /\ subs[1].pos = 3
    /\ subs[1].fullResponse = <<"H", "e", "l", "l", "o">>

\* C7: a frame whose payload does not parse, or lacks the choices structure,
\* is skipped: the accumulated text is the text accumulated from the same
\* chunks without these frames, and a body that ends normally is left by the
\* success exit.
C7_MalformedFrameSkipped ==
    /\ [](\A k \in Streaming :
             subs[k].fullResponse =
                 Decode(<<>>, [i \in 1..subs[k].pos |->
                                  Without(subs[k].stream[i], MalformedFrames)]))
    /\ [][\A k \in Streaming :
             (subs'[k].pc = "done" /\ subs[k].ending = "done")
                 => subs'[k].path = "success"]_vars

\* valid frames before and after malformed ones, in the same chunk and in the
\* next, have all contributed
C7_Witness ==
    /\ subs[1].pc = "streaming"
    /\ subs[1].stream = <<<<ContentFrame(Hel), Frame(<<JBad>>)>>,
                          <<Frame(<<JNoChoices>>), ContentFrame(Lo)>>>>
    /\ subs[1].pos = 2
    /\ subs[1].fullResponse = <<"H", "e", "l", "l", "o">>

\* C8 as stated: a [DONE] segment ends the processing of that segment only,
\* so the accumulated text is the text accumulated from the same chunks
\* without their [DONE] frames.
C8_DoneSegmentOnly ==
    \A k \in Streaming :
        subs[k].fullResponse =
            Decode(<<>>, [i \in 1..subs[k].pos |->
                             Without(subs[k].stream[i], {DoneFrame})])

\* C8 amended: a [DONE] segment ends the processing of its chunk: the frames
\* that follow it in the same chunk are dropped, the read loop goes on and
\* the frames of later chunks are processed like any other.
C8_DoneEndsItsChunk ==
    \A k \in Streaming :
        subs[k].fullResponse =
            Decode(<<>>, [i \in 1..subs[k].pos |-> BeforeDone(subs[k].stream[i])])

\* a chunk with a content frame behind [DONE], then a chunk with a content
\* frame: the second content alone has been accumulated
C8_Witness ==
    /\ subs[1].pc = "streaming"
    /\ subs[1].stream = <<<<DoneFrame, ContentFrame(Lo)>>, <<ContentFrame(Hel)>>>>
    /\ subs[1].pos = 2
    /\ subs[1].fullResponse = Hel


-----------------------------------------------------------------------------
(* Properties of the submission cycle (Spec, LiveSpec) *)

\* the step appends one turn of the role to the active conversation and
\* changes no other turn, no other conversation and not the selection
AppendsTurn(role) ==
    /\ activeChatId' = activeChatId
    /\ DOMAIN chats' = DOMAIN chats
    /\ \A i \in DOMAIN chats \ {activeChatId} : chats'[i] = chats[i]
    /\ LET before == chats[activeChatId].messages
           after == chats'[activeChatId].messages
       IN  /\ Len(after) = Len(before) + 1
           /\ SubSeq(after, 1, Len(before)) = before
           /\ after[Len(after)].role = role

Returned == {"done", "rejected", "threw"}

\* C2: an accepted submission appends one user turn when it is submitted and
\* one assistant turn when it returns, by whichever exit, and no other turn;
\* a submission of "Hi" to an empty conversation sets the title "Hi" and the
\* assistant turn leaves the title as it is.
C2_OneUserThenOneAssistantTurn ==
    [][\A k \in 1..MaxSubs :
          subs'[k] # subs[k] =>
              IF subs[k].pc = "new" /\ subs'[k].pc = "sending"
              THEN /\ AppendsTurn("user")
                   /\ LET after == chats'[activeChatId].messages
                      IN  /\ after[Len(after)].content = Trim(subs'[k].input)
                          /\ (Len(after) = 1 /\ after[1].content = Hi)
                                 => chats'[activeChatId].title = Hi
              ELSE IF subs[k].pc \in {"sending", "streaming"} /\ subs'[k].pc = "done"
              THEN /\ AppendsTurn("assistant")
                   /\ chats'[activeChatId].title = chats[activeChatId].title
                   /\ subs'[k].path \in {"success", "nobody", "requestError", "streamError"}
              ELSE /\ chats' = chats
                   /\ subs[k].pc \notin Returned]_vars

\* "Hi" has been submitted to an empty conversation and the stream has ended
C2_Witness ==
    /\ subs[1].pc = "done"
    /\ subs[1].path = "success"
    /\ subs[2].pc = "new"
    /\ chats[activeChatId].title = Hi
    /\ chats[activeChatId].messages =
          <<[role |-> "user", content |-> Hi],
            [role |-> "assistant", content |-> <<"H", "e", "l", "l", "o">>]>>

KnownErrors == {FetchFailure, ReadFailure} \cup ApiErrors

\* C3: when the request fails or a read of the stream fails, the submission
\* commits one assistant turn whose content is the text derived from the
\* error, not the text accumulated so far; the turns already in the store are
\* kept and no second request is sent.
C3_FailureCommitsErrorText ==
    /\ [](\A k \in 1..MaxSubs : subs[k].pc # "new" => subs[k].requests <= 1)
    /\ [][\A k \in 1..MaxSubs :
             (/\ subs[k].pc \in {"sending", "streaming"}
              /\ subs'[k].pc = "done"
              /\ subs'[k].path \in {"requestError", "streamError"})
             => (/\ AppendsTurn("assistant")
                 /\ subs'[k].error \in KnownErrors
                 /\ LET after == chats'[activeChatId].messages
                    IN  after[Len(after)].content = ErrorPrefix \o subs'[k].error
                 /\ subs'[k].requests = subs[k].requests)]_vars

\* a read has failed after "Hello" had been accumulated: the error text
\* follows the user turn
C3_Witness ==
    /\ subs[1].pc = "done"
    /\ subs[1].path = "streamError"
    /\ subs[1].requests = 1
    /\ chats[activeChatId].messages =
          <<[role |-> "user", content |-> Hi],
            [role |-> "assistant", content |-> ErrorPrefix \o ReadFailure]>>

\* C4: an accepted submission whose request and stream complete or fail
\* returns, and when it returns the typing indicator is cleared, on every exit.
C4_IndicatorCleared ==
    \A k \in 1..MaxSubs :
        (subs[k].pc \in {"sending", "streaming"} /\ typing)
            ~> (subs[k].pc = "done" /\ ~typing)

\* the error exit has been taken and the indicator is hidden
C4_Witness ==
    /\ subs[1].pc = "done"
    /\ subs[1].path = "requestError"
    /\ subs[2].pc = "done"
    /\ subs[2].path = "success"
    /\ ~typing

\* C9: a submit event without a credential, or with an input that is empty
\* once trimmed, sends no request and leaves the store and the typing
\* indicator as they are.
C9_RejectedSubmitChangesNothing ==
    /\ [](\A k \in 1..MaxSubs :
             (subs[k].pc # "new" /\ (~apiService \/ Trim(subs[k].input) = <<>>))
                 => (subs[k].pc = "rejected" /\ subs[k].requests = 0))
    /\ [][\A k \in 1..MaxSubs :
             (subs[k].pc = "new" /\ subs'[k].pc = "rejected")
                 => (/\ UNCHANGED <<chats, activeChatId, settings, storage, typing>>
                     /\ \A j \in 1..MaxSubs \ {k} : subs'[j] = subs[j])]_vars

\* "Hi" has been submitted without a credential: nothing is in the store
C9_Witness ==
    /\ ~apiService
    /\ subs[1].pc = "rejected"
    /\ Trim(subs[1].input) = Hi
    /\ chats[activeChatId].messages = <<>>
    /\ ~typing

-----------------------------------------------------------------------------
(* Properties of the store, continued (StoreSpec) *)

\* C11: deleteChat applied to the only conversation of the store leaves
\* exactly one conversation, which is new: it carries the id of the current
\* time, has no turns, the default title and the default system prompt, and
\* it is the active conversation.
C11_DeleteLastCreatesFresh ==
    [][\A id \in Ids :
          (DeleteChat(id) /\ DOMAIN chats = {id})
              => (/\ DOMAIN chats' = {ChatId(now)}
                  /\ activeChatId' = ChatId(now)
                  /\ chats'[ChatId(now)] =
                        [id |-> ChatId(now), title |-> DefaultTitle,
                         messages |-> <<>>, systemPrompt |-> DefaultPrompt])]_vars

\* the conversation created at time 1 was the only one and has been deleted
\* at time 2: a fresh conversation of time 2 is the only one, and active
C11_Witness ==
    /\ call = [op |-> "deleteChat", args |-> <<ChatId(1)>>]
    /\ now = 2
    /\ DOMAIN chats = {ChatId(2)}
    /\ activeChatId = ChatId(2)
    /\ chats[ChatId(2)] = NewChat(ChatId(2))

\* C12: every createNewChat call yields an id that no conversation of the
\* store carries: the number of conversations grows by one, the conversations
\* that existed are kept as they were, and the new conversation is active.
C12_CreateYieldsFreshId ==
    [][CreateNewChat
          => (/\ activeChatId' \notin DOMAIN chats
              /\ Cardinality(DOMAIN chats') = Cardinality(DOMAIN chats) + 1
              /\ \A i \in DOMAIN chats : i \in DOMAIN chats' /\ chats'[i] = chats[i]
              /\ activeChatId' \in DOMAIN chats')]_vars

-----------------------------------------------------------------------------
(* Properties of the turns of a conversation (MessageSpec) *)

\* C13: when addMessage appends a user turn that is the first turn of the
\* conversation, the title becomes the first 30 characters of the content,
\* followed by '...' exactly when the content is longer than 30 characters;
\* a turn that is not the first, or a first turn of the assistant, leaves the
\* title as it is.
C13_TitleFromFirstUserTurn ==
    [][\A role \in Roles, content \in TitleContents :
          (AddMessage(role, content) /\ HasActiveChat(Store))
              => LET before == chats[activeChatId]
                     after == chats'[activeChatId]
                 IN  IF before.messages = <<>> /\ role = "user"
                     THEN after.title =
                              IF Len(content) > 30
                              THEN SubSeq(content, 1, 30) \o <<".", ".", ".">>
                              ELSE content
                     ELSE after.title = before.title]_vars

\* a user turn of 31 characters is the first turn: the title is its first 30
\* characters and the marker
C13_Witness ==
    /\ call.op = "addMessage"
    /\ call.args = <<"user", Long31>>
    /\ chats[activeChatId].messages = <<[role |-> "user", content |-> Long31]>>
    /\ chats[activeChatId].title = Long30 \o <<".", ".", ".">>

\* C14: over the addMessage and deleteMessage calls on a conversation, a
\* title that has been derived from a first user turn never changes again.
C14_TitleOverwrittenOnce ==
    [][\A i \in DOMAIN chats :
          (i \in DOMAIN chats' /\ chats[i].title # DefaultTitle)
              => chats'[i].title = chats[i].title]_vars

\* C17: deleteMessage(index) with 0 <= index < length removes the turn at
\* that position of the active conversation: the turns before it stay, the
\* turns after it move down by one, and nothing else changes.
C17_DeleteRemovesThatTurn ==
    [][\A index \in -1..MaxTurns :
          (/\ DeleteMessage(index)
           /\ HasActiveChat(Store)
           /\ index >= 0
           /\ index < Len(chats[activeChatId].messages))
          => LET m == chats[activeChatId].messages
                 n == chats'[activeChatId].messages
             IN  /\ activeChatId' = activeChatId
                 /\ DOMAIN chats' = DOMAIN chats
                 /\ Len(n) = Len(m) - 1
                 /\ \A i \in 1..Len(n) : n[i] = IF i <= index THEN m[i] ELSE m[i + 1]
                 /\ chats'[activeChatId] = [chats[activeChatId] EXCEPT !.messages = n]
                 /\ \A c \in DOMAIN chats \ {activeChatId} : chats'[c] = chats[c]]_vars

\* the first of two turns has been deleted: the second is now the first
C17_Witness ==
    /\ call = [op |-> "deleteMessage", args |-> <<0>>]
    /\ chats[activeChatId].title = Hi
    /\ chats[activeChatId].messages = <<[role |-> "assistant", content |-> Long31]>>

-----------------------------------------------------------------------------
(* Properties of the StateManager alone (ManagerSpec), and of deleteChat   *)
(* on an absent id (StoreSpec)                                              *)

\* C15: addMessage called while activeChatId resolves to no conversation
\* returns undefined and changes nothing: no turn, no title, and the
\* persisted blob is not written.
C15_AddWithoutActiveChatIsNoOp ==
    [][\A role \in Roles, content \in Contents :
          (AddMessage(role, content) /\ activeChatId \notin DOMAIN chats)
              => (/\ UNCHANGED <<chats, activeChatId, settings, storage>>
                  /\ call'.result = <<>>)]_vars

\* addMessage has returned undefined: conversations exist, none is active,
\* none has a turn, and the blob is still the partial one that was loaded
C15_Witness ==
    /\ call.op = "addMessage"
    /\ call.result = <<>>
    /\ DOMAIN chats # {}
    /\ activeChatId \notin DOMAIN chats
    /\ TotalTurns(Store) = 0
    /\ storage # <<Serialize(Store)>>

\* C16: deleteMessage(index) with a negative index, an index at or beyond
\* the number of turns of the active conversation, or without an active
\* conversation, leaves the conversations, activeChatId, the settings and the
\* persisted blob as they are.
C16_DeleteOutOfRangeIsNoOp ==
    [][\A index \in -1..MaxTurns :
          (/\ DeleteMessage(index)
           /\ \/ activeChatId \notin DOMAIN chats
              \/ index < 0
              \/ index >= Len(chats[activeChatId].messages))
          => UNCHANGED <<chats, activeChatId, settings, storage>>]_vars

\* deleteMessage(1) on a conversation of one turn: the turn is there, and the
\* blob is still the partial one that was loaded
C16_Witness ==
    /\ call = [op |-> "deleteMessage", args |-> <<1>>]
    /\ activeChatId \in DOMAIN chats
    /\ Len(chats[activeChatId].messages) = 1
    /\ storage # <<Serialize(Store)>>

\* C18: deleteChat(id) with an id that no conversation of the store carries
\* removes and creates no conversation and leaves the selection.
C18_DeleteAbsentIsNoOp ==
    [][\A id \in Ids \cup {Null} :
          (DeleteChat(id) /\ id \notin DOMAIN chats)
              => (chats' = chats /\ activeChatId' = activeChatId)]_vars

\* deleteChat of the id of time 3 at time 2, when no such conversation can
\* exist: both conversations are there and the older one is still active
C18_Witness ==
    /\ call = [op |-> "deleteChat", args |-> <<ChatId(3)>>]
    /\ now = 2
    /\ DOMAIN chats = {ChatId(1), ChatId(2)}
    /\ activeChatId = ChatId(1)

\* C19: setActiveChat(id) selects id when a conversation carries it;
\* otherwise it selects the conversation with the greatest creation time, or
\* null when the store is empty; it creates no conversation.
C19_SetActiveSelectsOrFallsBack ==
    [][\A id \in Ids \cup {Null} :
          SetActiveChat(id)
              => (/\ chats' = chats
                  /\ IF id # Null /\ id \in DOMAIN chats
                     THEN activeChatId' = id
                     ELSE IF DOMAIN chats # {}
                     THEN /\ activeChatId' \in DOMAIN chats
                          /\ \A j \in DOMAIN chats :
                                ChatTime(j) <= ChatTime(activeChatId')
                     ELSE activeChatId' = Null)]_vars

\* setActiveChat(null) on an empty store: no conversation, none selected
C19_Witness ==
    /\ call = [op |-> "setActiveChat", args |-> <<Null>>]
    /\ DOMAIN chats = {}
    /\ activeChatId = Null
    /\ storage = <<Serialize(Store)>>

\* C20: in every state, _initState on the blob that saveState writes yields
\* the chats, activeChatId and settings of the state; and the state that
\* _initState builds from a missing or partial blob has the persisted value
\* of every field the blob holds and the default of every field it lacks,
\* the settings field by field.
C20_RoundTrip ==
    /\ LET r == initState(saveState(Store).storage)
       IN  r.chats = chats /\ r.activeChatId = activeChatId /\ r.settings = settings
    /\ call = NoCall =>
          LET blob == IF storage = <<>> THEN <<>> ELSE storage[1]
              saved == IF "settings" \in DOMAIN blob THEN blob.settings ELSE <<>>
          IN  /\ chats = IF "chats" \in DOMAIN blob THEN blob.chats ELSE <<>>
              /\ activeChatId =
                    IF "activeChatId" \in DOMAIN blob THEN blob.activeChatId ELSE Null
              /\ DOMAIN settings = DOMAIN DefaultSettings \cup DOMAIN saved
              /\ \A k \in DOMAIN settings :
                    settings[k] = IF k \in DOMAIN saved THEN saved[k]
                                  ELSE DefaultSettings[k]

\* a blob whose settings hold the font size alone has been loaded: the font
\* size is the persisted one, the other settings are the defaults
C20_Witness ==
    /\ call = NoCall
    /\ storage # <<>>
    /\ "settings" \in DOMAIN storage[1]
    /\ DOMAIN storage[1].settings = {"fontSize"}
    /\ DOMAIN chats # {}
    /\ settings.fontSize = 5
    /\ settings.maxTokens = 2048
    /\ settings.showThoughts = FALSE


-----------------------------------------------------------------------------
(* The formatter in the cycle: one submission, whose reply is any text of  *)
(* Texts, sent in one frame                                                *)

MaxText == 5        \* FormatSpec: characters of a reply

\* a letter, the white space, the pipe of a table line, the fence of a code
\* block and a list marker
Alphabet == {"a", " ", "\n", "|", Fence, "*"}

Texts == SeqsUpTo(Alphabet, MaxText)

TextStreams == {<<<<ContentFrame(JsonString(t))>>>> : t \in Texts \ {<<>>}} \cup {<<>>}

NextFormat ==
    \/ \E input \in Inputs : Submit(1, input, DefaultPrompt)
    \/ \E stream \in TextStreams : RespondOk(1, stream, "done")
    \/ ReadChunk(1)
    \/ ReadDone(1)

FormatSpec == InitStream /\ [][NextFormat]_vars

\* the execution k returns from the read of its stream by the success exit
Completes(k) ==
    /\ subs[k].pc = "streaming"
    /\ subs'[k].pc = "done"
    /\ subs'[k].path = "success"

-----------------------------------------------------------------------------
(* Properties of the formatter in the cycle (FormatSpec) *)

-----------------------------------------------------------------------------
(* Properties of the page, continued (Spec) *)

\* C22: the user turn is appended before the payload is built: the messages
\* of the request are one system entry holding the system prompt of the
\* active conversation, then every turn of that conversation in order, each
\* as a role and a content and nothing else, the last one being the turn
\* just submitted.
C22_PayloadIsPromptThenHistory ==
    [][\A k \in 1..MaxSubs :
         (subs[k].pc = "new" /\ subs'[k].pc = "sending") =>
            LET activeChat == chats'[activeChatId']
                messages == subs'[k].payload.messages
                turns == activeChat.messages
            IN  /\ Len(messages) = Len(turns) + 1
                /\ messages[1] =
                      [role |-> "system", content |-> activeChat.systemPrompt]
                /\ \A i \in 1..Len(turns) :
                      /\ DOMAIN messages[i + 1] = {"role", "content"}
                      /\ messages[i + 1].role = turns[i].role
                      /\ messages[i + 1].content = turns[i].content
                /\ turns # <<>>
                /\ messages[Len(messages)] =
                      [role |-> "user", content |-> Trim(subs'[k].input)]]_vars

\* a request is in flight that carries the prompt typed in the form, a
\* turn of the history and the turn just submitted
C22_Witness ==
    /\ subs[2].pc = "sending"
    /\ Len(subs[2].payload.messages) = 3
    /\ subs[2].payload.messages[1] = [role |-> "system", content |-> CustomPrompt]
    /\ subs[2].payload.messages[2].role = "assistant"
    /\ subs[2].payload.messages[3] = [role |-> "user", content |-> Hi]


\* C23: at most one submission is in flight: no two executions of
\* _handleFormSubmit are suspended at an await at the same time.
C23_OneSubmissionInFlight ==
    Cardinality(InFlight) <= 1


-----------------------------------------------------------------------------
(* Properties of the formatter (FormatSpec) *)

\* C24: the formatter is idempotent: applied to the text it has produced
\* for the final render, it returns that text.
C24_FormatIdempotent ==
    (subs[1].pc = "done" /\ subs[1].path = "success") =>
        formatAssistantContent(subs[1].bubble.text) = subs[1].bubble.text

\* the protected blocks of a text, the parts split puts at the even places:
\* a code block from its fence to its closing fence, and a table from the
\* pipe of its first line to the last character of its last line, without
\* the newline before the table and without the newline that ends it
ProtectedBlocks(text) ==
    LET parts == SplitFrom(text, 1)
        Table(part) ==
            LET from == IF part[1] = "\n" THEN 2 ELSE 1
            IN  SubSeq(part, from, Len(part) - 1)
    IN  {IF parts[i][1] = Fence THEN parts[i] ELSE Table(parts[i]) :
            i \in {j \in 1..Len(parts) : j % 2 = 0}}

\* the block stands in the text, character for character
Occurs(block, text) ==
    \E i \in 0..(Len(text) - Len(block)) :
        SubSeq(text, i + 1, i + Len(block)) = block

\* C25: every protected block of the text received stands in the text the
\* formatter returns character for character, with its white space, wherever
\* the block stands; for a table this is asked even without the newline that
\* ends its last line.
C25_ProtectedBlocksUnchanged ==
    (subs[1].pc = "done" /\ subs[1].path = "success") =>
        \A block \in ProtectedBlocks(subs[1].fullResponse) :
            Occurs(block, subs[1].bubble.text)


-----------------------------------------------------------------------------
(* Properties of the page, the conversation of a reply (Spec) *)

\* C26: the assistant turn of a submission is committed to the conversation
\* that received its user turn, also when another conversation has been
\* selected or created while the request or the stream was in flight: when
\* the execution returns and that conversation still exists, it is that
\* conversation that gains the assistant turn, and no other one changes.
C26_ReplyJoinsItsConversation ==
    [][\A k \in 1..MaxSubs :
         (/\ subs[k].pc \in {"sending", "streaming"}
          /\ subs'[k].pc = "done"
          /\ subs[k].chat \in DOMAIN chats) =>
            /\ Len(chats'[subs[k].chat].messages) =
                  Len(chats[subs[k].chat].messages) + 1
            /\ chats'[subs[k].chat].messages[Len(chats'[subs[k].chat].messages)].role
                  = "assistant"
            /\ \A id \in DOMAIN chats \ {subs[k].chat} : chats'[id] = chats[id]]_vars


-----------------------------------------------------------------------------
(* The renders of a streamed reply: one submission, the frames of the      *)
(* browser interleaved with the reads of the body                          *)

MaxFrames == 3      \* RenderSpec: chunks of one response body

\* a chunk appends once, twice or not at all, or ends the reply
RenderChunks ==
    {<<ContentFrame(Hel)>>, <<ContentFrame(Lo)>>,
     <<ContentFrame(<<"l">>), ContentFrame(<<"o">>)>>,
     <<Frame(<<JNoContent>>)>>, <<DoneFrame>>}

RenderStreams == SeqsUpTo(RenderChunks, MaxFrames)

\* the lengths the accumulated text can have
RenderLengths == 1..(MaxFrames * Len(Hel))

NextRender ==
    \/ \E input \in Inputs : Submit(1, input, DefaultPrompt)
    \/ \E stream \in RenderStreams, ending \in Endings : RespondOk(1, stream, ending)
    \/ ReadChunk(1)
    \/ ReadDone(1)
    \/ ReadError(1)
    \/ RenderFrame(1)

RenderSpec == InitStream /\ [][NextRender]_vars

\* the browser runs the callbacks it holds: the page is visible
RenderLive == RenderSpec /\ WF_vars(RenderFrame(1))

-----------------------------------------------------------------------------
(* Properties of the renders (RenderSpec, RenderLive) *)

\* C27: once the final render of the bubble has been done, after the end of
\* the stream or after an error, no incremental render runs on the bubble:
\* what the bubble shows does not change any more.
C27_FinalRenderIsLast ==
    [][(subs[1].pc = "done" /\ subs[1].bubble.by = "finalize") =>
          subs'[1].bubble = subs[1].bubble]_vars

\* the bubble shows, by a frame callback or by the final render of a reply
\* that completed, a buffer of n characters at least
Shows(n) ==
    /\ subs[1].pc \in {"streaming", "done"}
    /\ \/ subs[1].bubble.by = "update" /\ Len(subs[1].bubble.text) - 1 >= n
       \/ /\ subs[1].bubble.by = "finalize"
          /\ subs[1].path = "success"
          /\ Len(subs[1].fullResponse) >= n

\* C29: while a reply is streamed at most one render is pending, and
\* frameRequested is true exactly while a render that was requested has not
\* run; and every increment is shown in the end: once the buffer holds n
\* characters, a buffer of n characters at least is rendered, by a frame
\* callback or by the final render.
C29_OnePendingRenderAndAllShown ==
    /\ [](subs[1].pc \in {"streaming", "done"} =>
            /\ subs[1].frames <= 1
            /\ subs[1].frameRequested <=> subs[1].frames = 1)
    /\ \A n \in RenderLengths :
          (subs[1].pc = "streaming" /\ Len(subs[1].fullResponse) >= n) ~> Shows(n)

\* two chunks have appended while one render was pending, and the render
\* has then shown the text of both
C29_Witness ==
    /\ subs[1].pc = "streaming"
    /\ subs[1].pos = 2
    /\ subs[1].fullResponse = Hel \o Lo
    /\ ~subs[1].frameRequested
    /\ subs[1].frames = 0
    /\ subs[1].bubble = [by |-> "update", text |-> Hel \o Lo \o <<Cursor>>]


-----------------------------------------------------------------------------
(* The transport: one submission, whose response body is one character     *)
(* stream that the transport cuts into chunks anywhere, a lexeme excepted   *)

MaxCuts == 2        \* CutSpec: cuts of one response body

\* the character stream of the frames "Hel", "lo" and the sentinel
Body == ChunkText(<<ContentFrame(Hel), ContentFrame(Lo), DoneFrame>>)

\* the ways of cutting a text into chunks that are not empty, with n cuts
\* at most
RECURSIVE CutsOf(_, _)
CutsOf(text, n) ==
    {<<<<text>>>>} \cup
    (IF n = 0 THEN {}
     ELSE UNION {{<<<<SubSeq(text, 1, i)>>>> \o rest :
                     rest \in CutsOf(SubSeq(text, i + 1, Len(text)), n - 1)} :
                  i \in 1..(Len(text) - 1)})

CutStreams == CutsOf(Body, MaxCuts)

NextCut ==
    \/ \E input \in Inputs : Submit(1, input, DefaultPrompt)
    \/ \E stream \in CutStreams, ending \in Endings : RespondOk(1, stream, ending)
    \/ ReadChunk(1)
    \/ ReadDone(1)
    \/ ReadError(1)

CutSpec == InitStream /\ [][NextCut]_vars

\* the character stream of a body: its chunks one after the other
RECURSIVE BodyText(_)
BodyText(stream) ==
    IF stream = <<>> THEN <<>>
    ELSE ChunkText(Head(stream)) \o BodyText(Tail(stream))

-----------------------------------------------------------------------------
(* Properties of the decoder under the cuts of the transport (CutSpec) *)

\* C28: the text accumulated from a body depends on its character stream
\* only, not on the cuts: when all the chunks have been read, it is the text
\* the loop accumulates from the same character stream received in one chunk.
C28_CutsDoNotMatter ==
    (subs[1].pc = "streaming" /\ subs[1].pos = Len(subs[1].stream)) =>
        subs[1].fullResponse = ProcessChunk(<<>>, BodyText(subs[1].stream))


-----------------------------------------------------------------------------
(* Properties of the store, continued (StoreSpec) *)

\* C30: deleteChat(id) of a conversation of the store that is not the active
\* one removes that conversation only: the selection is unchanged, no
\* conversation is created, and every other conversation keeps its title,
\* its system prompt and its turns.
C30_DeleteOtherRemovesOnlyIt ==
    [][\A id \in Ids :
          (DeleteChat(id) /\ id \in DOMAIN chats /\ id # activeChatId)
              => /\ activeChatId' = activeChatId
                 /\ DOMAIN chats' = DOMAIN chats \ {id}
                 /\ \A other \in DOMAIN chats' : chats'[other] = chats[other]]_vars

\* the conversation of time 2 has been deleted while the oldest one was
\* active: the oldest is still active, and the newest keeps its turn
C30_Witness ==
    /\ call = [op |-> "deleteChat", args |-> <<ChatId(2)>>]
    /\ DOMAIN chats = {ChatId(1), ChatId(3)}
    /\ activeChatId = ChatId(1)
    /\ Len(chats[ChatId(3)].messages) = 1

=============================================================================
